---- MODULE Spec2Model ----
(***************************************************************************)
(* IgnoreLens: cumulative evaluation of ignore-file patterns.              *)
(*                                                                         *)
(* Strings are sequences of one-character strings, so that startsWith,     *)
(* endsWith, slice and indexOf are computed as the TypeScript code         *)
(* computes them.                                                          *)
(***************************************************************************)
EXTENDS Integers, Sequences, FiniteSets, TLC

VARIABLES
    cumulativeSet,   \* countCalculator: Set<string> of currently ignored paths
    ignoredDirs,     \* countCalculator: Set<string> of ignored directory prefixes
    last,            \* the last calculateAdvancedCount call (arguments, state before, result)
    foundFiles,      \* the file paths vscode.workspace.findFiles returns for the folder
    document,        \* the lines of the ignore document in the editor
    countMode,       \* configuration ignorelens.countMode
    workspaceFiles,  \* updateDecorations: the candidate paths of the running pass
    lineIndex,       \* updateDecorations: number of document lines the loop has handled
    lineData,        \* updateDecorations: one entry per pattern line handled so far
    pc,              \* position of the pass: "idle", "loop", "done" (loop finished),
                     \* "built" (decorations built) or "threw" (ended by an exception)
    prev,            \* lineData and final set size of the pass completed before this one
    updateVersion,   \* DecorationProvider.updateVersion
    runs,            \* the updateDecorations calls so far, by the version each one took
    decorations,     \* what each editor shows: nothing, cleared, or the results of a run
    enabled,         \* configuration ignorelens.enabled
    lineText,        \* parseLine: the line handed to the parser
    processedLine,   \* parseLine: processedLine after the trailing-whitespace step
    parsed,          \* parseLine: the ParsedLine returned
    matchPattern,    \* findMatches: the pattern argument
    matchFiles,      \* findMatches: the files argument
    matched,         \* findMatches: the MatchResult returned, once the call was made
    cachedFiles,     \* WorkspaceScanner.cachedFiles: null, or the cached file list
    cacheInvalidated,\* WorkspaceScanner.cacheInvalidated
    invalidations,   \* number of invalidateCache() calls that have returned
    scans,           \* the getAllFiles calls so far
    updateTimeout,   \* DecorationProvider.updateTimeout: 0 for undefined, or a timer
    timers,          \* the setTimeout timers triggerUpdateDecorations has created
    currentStyle,    \* DecorationProvider.currentStyle
    showMatchCount,  \* DecorationProvider.showMatchCount
    noMatchDecorations,    \* updateDecorations: the lines given the redundant decoration
    matchCountDecorations, \* updateDecorations: the colour of the count shown on each line
    relativeDir,     \* updateDecorations: normalisedRelativeDir, '' for a file at the root
    disposed         \* DecorationProvider.dispose() has returned

evalVars == <<cumulativeSet, ignoredDirs, last>>
passVars == <<foundFiles, document, countMode, workspaceFiles, lineIndex, lineData,
              pc, prev>>
provVars == <<updateVersion, runs, decorations, enabled>>
parseVars == <<lineText, processedLine, parsed>>
matchVars == <<matchPattern, matchFiles, matched>>
scanVars == <<cachedFiles, cacheInvalidated, invalidations, scans>>
timerVars == <<updateTimeout, timers>>
decorVars == <<currentStyle, showMatchCount, noMatchDecorations, matchCountDecorations>>
vars == <<evalVars, passVars, provVars, parseVars, matchVars, scanVars, timerVars,
          decorVars, relativeDir, disposed>>

----------------------------------------------------------------------------
(* Bounds *)

\* Longest match list handed to calculateAdvancedCount by the test-level caller.
MaxMatch == 3

\* Most lines in the ignore document.
MaxLines == 3

\* Most files found in the workspace folder.
MaxFiles == 2

\* Most updateDecorations calls made on one provider.
MaxUpdates == 4

\* Longest candidate list handed to findMatches.
MaxCandidates == 3

\* Most getAllFiles calls made on one scanner.
MaxScans == 3

\* Most invalidateCache calls made on one scanner.
MaxInvalidations == 2

\* Most timers one provider creates.
MaxTimers == 3

\* Most pattern lines in the lineData handed to the decoration pass.
MaxOutcomes == 2

----------------------------------------------------------------------------
(* String helpers (JavaScript String methods) *)

StartsWith(s, p) == Len(p) <= Len(s) /\ SubSeq(s, 1, Len(p)) = p

EndsWith(s, p) == Len(p) <= Len(s) /\ SubSeq(s, Len(s) - Len(p) + 1, Len(s)) = p

\* s.substring(from), from is 0-based
Substring(s, from) == SubSeq(s, from + 1, Len(s))

\* s.slice(0, -n)
SliceEnd(s, n) == SubSeq(s, 1, Len(s) - n)

\* s.indexOf(ch), 0-based, -1 when absent
IndexOf(s, ch) ==
    IF \E i \in 1..Len(s) : s[i] = ch
    THEN (CHOOSE i \in 1..Len(s) : s[i] = ch /\ \A j \in 1..(i - 1) : s[j] # ch) - 1
    ELSE -1

\* /[*?]/.test(s)
HasWildcards(s) == \E i \in 1..Len(s) : s[i] \in {"*", "?"}

\* The elements of a sequence
Range(s) == {s[i] : i \in 1..Len(s)}

\* All duplicate-free sequences over S of length at most n
RECURSIVE SeqsNoDup(_, _)
SeqsNoDup(S, n) ==
    IF n = 0 THEN {<<>>}
    ELSE LET shorter == SeqsNoDup(S, n - 1)
             longest == {q \in shorter : Len(q) = n - 1}
         IN  shorter \cup UNION {{Append(q, x) : x \in S \ Range(q)} : q \in longest}

----------------------------------------------------------------------------
(* countCalculator.ts *)

\* isUnderIgnoredDir(filePath, ignoredDirs)
isUnderIgnoredDir(filePath, dirs) == \E dir \in dirs : StartsWith(filePath, dir)

\* The prefix is cut before the slash instead of after it
extractDirectoryPrefixes_NoSlash(matchingFiles, pattern, isDirectory) ==
    IF Len(matchingFiles) = 0 THEN {}
    ELSE IF isDirectory
    THEN LET patternWithoutTrailingSlash ==
                 IF EndsWith(pattern, <<"/">>) THEN SliceEnd(pattern, 1) ELSE pattern
             firstFile == matchingFiles[1]
             slashIndex == IndexOf(firstFile, "/")
         IN  IF HasWildcards(patternWithoutTrailingSlash) THEN {}
             ELSE IF slashIndex # -1 THEN {SubSeq(firstFile, 1, slashIndex)}
             ELSE {}
    ELSE {}

\* extractDirectoryPrefixes(matchingFiles, pattern, isDirectory)
extractDirectoryPrefixes(matchingFiles, pattern, isDirectory) ==
    IF Len(matchingFiles) = 0 THEN {}
    ELSE IF isDirectory
    THEN LET patternWithoutTrailingSlash ==
                 IF EndsWith(pattern, <<"/">>) THEN SliceEnd(pattern, 1) ELSE pattern
             firstFile == matchingFiles[1]
             slashIndex == IndexOf(firstFile, "/")
         IN  IF HasWildcards(patternWithoutTrailingSlash) THEN {}
             ELSE IF slashIndex # -1 THEN {SubSeq(firstFile, 1, slashIndex + 1)}
             ELSE {}
    ELSE {}

\* The directory-prefix release of a negation line
\* (the text released is decided by suffix, never by the matched files).
ReleasedDirs_Regex(pattern, dirs) ==
    LET p == IF StartsWith(pattern, <<"!">>) THEN Substring(pattern, 1) ELSE pattern
        meta(s) == \E i \in 1..Len(s) : s[i] \in {"*", "?", "[", "]"}
    IN  IF EndsWith(p, <<"/">>) THEN dirs \ {p}
        ELSE IF EndsWith(p, <<"/", "*", "*">>) /\ Len(p) > 3 /\ ~meta(SliceEnd(p, 3))
             THEN dirs \ {SliceEnd(p, 2)}
        ELSE IF EndsWith(p, <<"/", "*">>) /\ Len(p) > 2 /\ ~meta(SliceEnd(p, 2))
             THEN dirs \ {SliceEnd(p, 1)}
        ELSE dirs

\* Any negation with a slash in it releases the directory part of its text
ReleasedDirs_AnySlash(pattern, dirs) ==
    LET p == IF StartsWith(pattern, <<"!">>) THEN Substring(pattern, 1) ELSE pattern
        slashes == {i \in 1..Len(p) : p[i] = "/"}
    IN  IF slashes = {} THEN dirs
        ELSE dirs \ {SubSeq(p, 1, CHOOSE i \in slashes : \A j \in slashes : j <= i)}

ReleasedDirs(pattern, dirs) ==
    LET patternWithoutNegation ==
            IF StartsWith(pattern, <<"!">>) THEN Substring(pattern, 1) ELSE pattern
    IN  IF EndsWith(patternWithoutNegation, <<"/">>)
        THEN dirs \ {patternWithoutNegation}
        ELSE IF EndsWith(patternWithoutNegation, <<"/", "*", "*">>)
        THEN dirs \ {SliceEnd(patternWithoutNegation, 2)}
        ELSE IF EndsWith(patternWithoutNegation, <<"/", "*">>)
        THEN dirs \ {SliceEnd(patternWithoutNegation, 1)}
        ELSE dirs

\* The counters and the set carried through the per-file loop; the three
\* ...Files sequences record which branch each file took.
NewAcc(set) ==
    [set |-> set, actionCount |-> 0, noActionCount |-> 0, blockedCount |-> 0,
     actionFiles |-> <<>>, noActionFiles |-> <<>>, blockedFiles |-> <<>>]

\* One iteration of the loop for a negation line
NegationStep_NoContinue(file, dirs, acc) ==
    LET a == IF isUnderIgnoredDir(file, dirs)
             THEN [acc EXCEPT !.blockedCount = @ + 1, !.blockedFiles = Append(@, file)]
             ELSE acc
    IN  IF file \in a.set
        THEN [a EXCEPT !.set = @ \ {file}, !.actionCount = @ + 1,
                       !.actionFiles = Append(@, file)]
        ELSE [a EXCEPT !.noActionCount = @ + 1, !.noActionFiles = Append(@, file)]

\* A matched path that is not in the set is put into it
NegationStep_AddMissing(file, dirs, acc) ==
    IF isUnderIgnoredDir(file, dirs)
    THEN [acc EXCEPT !.blockedCount = @ + 1, !.blockedFiles = Append(@, file)]
    ELSE IF file \in acc.set
    THEN [acc EXCEPT !.set = @ \ {file}, !.actionCount = @ + 1,
                     !.actionFiles = Append(@, file)]
    ELSE [acc EXCEPT !.set = @ \cup {file}, !.noActionCount = @ + 1,
                     !.noActionFiles = Append(@, file)]

\* A blocked path is counted as blocked and deleted all the same
NegationStep_RemoveBlocked(file, dirs, acc) ==
    IF isUnderIgnoredDir(file, dirs)
    THEN [acc EXCEPT !.set = @ \ {file}, !.blockedCount = @ + 1,
                     !.blockedFiles = Append(@, file)]
    ELSE IF file \in acc.set
    THEN [acc EXCEPT !.set = @ \ {file}, !.actionCount = @ + 1,
                     !.actionFiles = Append(@, file)]
    ELSE [acc EXCEPT !.noActionCount = @ + 1, !.noActionFiles = Append(@, file)]

NegationStep(file, dirs, acc) ==
    IF isUnderIgnoredDir(file, dirs)
    THEN [acc EXCEPT !.blockedCount = @ + 1, !.blockedFiles = Append(@, file)]
    ELSE IF file \in acc.set
    THEN [acc EXCEPT !.set = @ \ {file}, !.actionCount = @ + 1,
                     !.actionFiles = Append(@, file)]
    ELSE [acc EXCEPT !.noActionCount = @ + 1, !.noActionFiles = Append(@, file)]

\* One iteration of the loop for a normal line
NormalStep_AlwaysCount(file, acc) ==
    [acc EXCEPT !.set = @ \cup {file}, !.actionCount = @ + 1,
                !.actionFiles = Append(@, file)]

\* A path already in the set is taken out again
NormalStep_Toggle(file, acc) ==
    IF file \in acc.set
    THEN [acc EXCEPT !.set = @ \ {file}, !.actionCount = @ + 1,
                     !.actionFiles = Append(@, file)]
    ELSE [acc EXCEPT !.set = @ \cup {file}, !.actionCount = @ + 1,
                     !.actionFiles = Append(@, file)]

NormalStep(file, acc) ==
    IF file \in acc.set
    THEN [acc EXCEPT !.noActionCount = @ + 1, !.noActionFiles = Append(@, file)]
    ELSE [acc EXCEPT !.set = @ \cup {file}, !.actionCount = @ + 1,
                     !.actionFiles = Append(@, file)]

\* for (const file of matchingFiles) { ... }
RECURSIVE FileLoop(_, _, _, _, _)
FileLoop(i, matchingFiles, isNegation, dirs, acc) ==
    IF i > Len(matchingFiles) THEN acc
    ELSE FileLoop(i + 1, matchingFiles, isNegation, dirs,
                  IF isNegation THEN NegationStep(matchingFiles[i], dirs, acc)
                  ELSE NormalStep(matchingFiles[i], acc))

\* The release of a negation line run after its per-file loop
calculateAdvancedCount_ReleaseAfterLoop(matchingFiles, isNegation, isDirectory, set, dirs, pattern) ==
    LET acc   == FileLoop(1, matchingFiles, isNegation, dirs, NewAcc(set))
        dirs2 == IF ~isNegation
                 THEN dirs \cup extractDirectoryPrefixes(matchingFiles, pattern, isDirectory)
                 ELSE ReleasedDirs(pattern, dirs)
    IN  [actionCount |-> acc.actionCount, noActionCount |-> acc.noActionCount,
         blockedCount |-> acc.blockedCount, setSize |-> Cardinality(acc.set),
         cumulativeSet |-> acc.set, ignoredDirs |-> dirs2,
         actionFiles |-> acc.actionFiles, noActionFiles |-> acc.noActionFiles,
         blockedFiles |-> acc.blockedFiles]

\* calculateAdvancedCount: the result record and the two sets after the call
calculateAdvancedCount(matchingFiles, isNegation, isDirectory, set, dirs, pattern) ==
    LET dirs1 == IF isNegation THEN ReleasedDirs(pattern, dirs) ELSE dirs
        acc   == FileLoop(1, matchingFiles, isNegation, dirs1, NewAcc(set))
        dirs2 == IF ~isNegation
                 THEN dirs1 \cup extractDirectoryPrefixes(matchingFiles, pattern, isDirectory)
                 ELSE dirs1
    IN  [actionCount |-> acc.actionCount, noActionCount |-> acc.noActionCount,
         blockedCount |-> acc.blockedCount, setSize |-> Cardinality(acc.set),
         cumulativeSet |-> acc.set, ignoredDirs |-> dirs2,
         actionFiles |-> acc.actionFiles, noActionFiles |-> acc.noActionFiles,
         blockedFiles |-> acc.blockedFiles]

----------------------------------------------------------------------------
(* ignoreParser.ts *)

\* The class [ \t] of the trailing-escape expression
Whitespace == {" ", "\t"}

\* Characters of the class \s that reach the parser
RegexSpace == {" ", "\t", "\r", "\f"}

\* processedLine.replace(/\s+$/, '')
RECURSIVE TrimEnd(_)
TrimEnd(s) ==
    IF Len(s) > 0 /\ s[Len(s)] \in RegexSpace THEN TrimEnd(SliceEnd(s, 1)) ELSE s

\* Trailing whitespace is trimmed whether or not a backslash precedes it
TrailingProcessed_AlwaysTrim(line) == TrimEnd(line)

\* The trailing-whitespace step of parseLine
TrailingProcessed(line) ==
    IF Len(line) >= 2 /\ line[Len(line) - 1] = "\\" /\ line[Len(line)] \in Whitespace
    THEN SliceEnd(line, 2) \o <<line[Len(line)]>>
    ELSE TrimEnd(line)

\* The flags and the text are filled in before the line is classified
NonPatternLine_KeepText(type, line) ==
    [type |-> type, pattern |-> TrimEnd(line),
     isNegation |-> StartsWith(line, <<"!">>),
     isDirectory |-> EndsWith(TrimEnd(line), <<"/">>), rawText |-> line]

\* The ParsedLine returned for a blank line or a comment
NonPatternLine(type, line) ==
    [type |-> type, pattern |-> <<>>, isNegation |-> FALSE,
     isDirectory |-> FALSE, rawText |-> line]

\* s.trimStart()
RECURSIVE TrimStart(_)
TrimStart(s) ==
    IF Len(s) > 0 /\ s[1] \in RegexSpace THEN TrimStart(Tail(s)) ELSE s

\* The comment test made on the text without its leading whitespace
IsComment_TrimStart(processed) == StartsWith(TrimStart(processed), <<"#">>)

\* processedLine.startsWith('#')
IsComment(processed) == StartsWith(processed, <<"#">>)

\* The backslash of a leading \# stays in the pattern
UnescapeHash_None(processed) == processed

\* The escaped # at the start of the line
UnescapeHash(processed) ==
    IF StartsWith(processed, <<"\\", "#">>) THEN Substring(processed, 1) ELSE processed

\* The backslash of a leading \! stays in the pattern
UnescapeBang_None(processed) == processed

\* A leading ! is taken off the pattern as the backslash of \! is
UnescapeBang_ConsumeBang(processed) ==
    IF StartsWith(processed, <<"!">>) \/ StartsWith(processed, <<"\\", "!">>)
    THEN Substring(processed, 1)
    ELSE processed

\* The else-branch of the negation check: the backslash of \! is removed
UnescapeBang(processed) ==
    IF StartsWith(processed, <<"!">>) THEN processed
    ELSE IF StartsWith(processed, <<"\\", "!">>) THEN Substring(processed, 1)
    ELSE processed

\* rawText is taken from the processed line
parseLine_RawProcessed(line) ==
    LET p0 == TrailingProcessed(line)
        p1 == UnescapeHash(p0)
        isNegation == StartsWith(p1, <<"!">>)
        p2 == UnescapeBang(p1)
    IN  IF p0 = <<>> THEN NonPatternLine("blank", line)
        ELSE IF IsComment(p0) THEN NonPatternLine("comment", line)
        ELSE [type |-> "pattern", pattern |-> p2, isNegation |-> isNegation,
              isDirectory |-> EndsWith(p2, <<"/">>), rawText |-> p0]

\* IgnoreParser.parseLine(line)
parseLine(line) ==
    LET p0 == TrailingProcessed(line)
        p1 == UnescapeHash(p0)
        isNegation == StartsWith(p1, <<"!">>)
        p2 == UnescapeBang(p1)
    IN  IF p0 = <<>> THEN NonPatternLine("blank", line)
        ELSE IF IsComment(p0) THEN NonPatternLine("comment", line)
        ELSE [type |-> "pattern", pattern |-> p2, isNegation |-> isNegation,
              isDirectory |-> EndsWith(p2, <<"/">>), rawText |-> line]

----------------------------------------------------------------------------
(* patternMatcher.ts, with the gitignore matching of the `ignore` package  *)
(* for patterns made of literal characters, `*`, `?`, `**` and `/`.        *)

\* s.split('/')
RECURSIVE Split(_)
Split(s) ==
    LET i == IndexOf(s, "/")
    IN  IF i = -1 THEN <<s>>
        ELSE <<SubSeq(s, 1, i)>> \o Split(Substring(s, i + 1))

\* .filter(Boolean) on the segments
RECURSIVE NonEmpty(_)
NonEmpty(segs) ==
    IF segs = <<>> THEN <<>>
    ELSE IF Head(segs) = <<>> THEN NonEmpty(Tail(segs))
    ELSE <<Head(segs)>> \o NonEmpty(Tail(segs))

\* One path segment against one pattern segment: `*` is [^/]*, `?` is [^/]
RECURSIVE SegMatch(_, _, _, _)
SegMatch(pat, seg, i, j) ==
    IF i > Len(pat) THEN j > Len(seg)
    ELSE IF pat[i] = "*"
    THEN \E k \in j..(Len(seg) + 1) : SegMatch(pat, seg, i + 1, k)
    ELSE IF j > Len(seg) THEN FALSE
    ELSE IF pat[i] = "?" THEN SegMatch(pat, seg, i + 1, j + 1)
    ELSE pat[i] = seg[j] /\ SegMatch(pat, seg, i + 1, j + 1)

\* An anchored pattern against a whole path, segment by segment. A `**`
\* segment stands for any number of directories; as the last segment of a
\* pattern without a trailing slash it stands for at least one segment.
RECURSIVE SegsMatch(_, _, _, _, _)
SegsMatch(pats, segs, i, j, dirOnly) ==
    IF i > Len(pats) THEN j > Len(segs)
    ELSE IF pats[i] = <<"*", "*">>
    THEN IF i = Len(pats) /\ ~dirOnly /\ i > 1
         THEN j <= Len(segs)
         ELSE \E k \in j..(Len(segs) + 1) : SegsMatch(pats, segs, i + 1, k, dirOnly)
    ELSE /\ j <= Len(segs)
         /\ SegMatch(pats[i], segs[j], 1, 1)
         /\ SegsMatch(pats, segs, i + 1, j + 1, dirOnly)

\* The rule made from one pattern, tested against one path (a directory
\* path ends with `/`)
RuleMatches(clean, path) ==
    LET dirOnly  == EndsWith(clean, <<"/">>)
        body     == IF dirOnly THEN SliceEnd(clean, 1) ELSE clean
        anchored == IndexOf(body, "/") # -1
        pats     == NonEmpty(Split(body))
        segs     == NonEmpty(Split(path))
    IN  /\ pats # <<>>
        /\ segs # <<>>
        /\ dirOnly => EndsWith(path, <<"/">>)
        /\ IF anchored THEN SegsMatch(pats, segs, 1, 1, dirOnly)
           ELSE SegMatch(pats[1], segs[Len(segs)], 1, 1)

\* The parent directories of a path, each with its trailing slash, and the
\* path itself
SelfAndParents(path) ==
    {SubSeq(path, 1, i) : i \in {k \in 1..Len(path) : path[k] = "/"}} \cup {path}

\* ig.add(cleanPattern); ig.ignores(file): blank and `#` patterns add no
\* rule, a pattern starting with `!` adds only a re-include rule, and a path
\* is ignored when the rule matches it or one of its parent directories.
Ignores(cleanPattern, file) ==
    /\ TrimEnd(cleanPattern) # <<>>
    /\ ~StartsWith(cleanPattern, <<"#">>)
    /\ ~StartsWith(cleanPattern, <<"!">>)
    /\ \E q \in SelfAndParents(file) : RuleMatches(cleanPattern, q)

\* files.filter(file => ig.ignores(file)), in the order of files
RECURSIVE Filter(_, _)
Filter(cleanPattern, files) ==
    IF files = <<>> THEN <<>>
    ELSE (IF Ignores(cleanPattern, Head(files)) THEN <<Head(files)>> ELSE <<>>)
         \o Filter(cleanPattern, Tail(files))

findMatches_EchoClean(pattern, files) ==
    LET isNegation == StartsWith(pattern, <<"!">>)
        cleanPattern == IF isNegation THEN Substring(pattern, 1) ELSE pattern
    IN  [pattern |-> cleanPattern, matchingFiles |-> Filter(cleanPattern, files),
         isNegation |-> isNegation]

findMatches_NoStrip(pattern, files) ==
    LET isNegation == StartsWith(pattern, <<"!">>)
    IN  [pattern |-> pattern, matchingFiles |-> Filter(pattern, files),
         isNegation |-> isNegation]

\* PatternMatcher.findMatches(pattern, files)
findMatches(pattern, files) ==
    LET isNegation == StartsWith(pattern, <<"!">>)
        cleanPattern == IF isNegation THEN Substring(pattern, 1) ELSE pattern
    IN  [pattern |-> pattern, matchingFiles |-> Filter(cleanPattern, files),
         isNegation |-> isNegation]

----------------------------------------------------------------------------
(* workspaceScanner.ts *)

\* The directory entries of one file path, outermost first
DirsOf(filePath) ==
    LET slashes == {k \in 1..Len(filePath) : filePath[k] = "/"}
        RECURSIVE Asc(_)
        Asc(S) == IF S = {} THEN <<>>
                  ELSE LET m == CHOOSE x \in S : \A y \in S : x <= y
                       IN  <<SubSeq(filePath, 1, m)>> \o Asc(S \ {m})
    IN  Asc(slashes)

\* Appends the elements of a sequence that are not there yet (Set insertion order)
RECURSIVE AddAll(_, _)
AddAll(acc, xs) ==
    IF xs = <<>> THEN acc
    ELSE AddAll(IF Head(xs) \in Range(acc) THEN acc ELSE Append(acc, Head(xs)), Tail(xs))

RECURSIVE Directories(_, _)
Directories(allFiles, acc) ==
    IF allFiles = <<>> THEN acc
    ELSE Directories(Tail(allFiles), AddAll(acc, DirsOf(Head(allFiles))))

\* WorkspaceScanner.getFilesInFolder: the files found, then their directories
getFilesInFolder(allFiles) == allFiles \o Directories(allFiles, <<>>)

----------------------------------------------------------------------------
(* Direct calls of calculateAdvancedCount, as the unit tests make them:    *)
(* any pattern text with any duplicate-free list of matched paths, the     *)
(* two sets being carried from one call to the next.                       *)

UnitPaths ==
    { <<"d", "/", "f">>, <<"d", "/", "g">>,
      <<"[", "*", "?", "]", "/", "f">>, <<"f">> }

UnitPatterns ==
    { <<"d", "/">>, <<"d", "/", "*", "*">>, <<"d", "/", "*">>,
      <<"d", "/", "*", "*", "/">>, <<"d", "/", "f">>,
      <<"!", "d", "/">>, <<"!", "[", "*", "?", "]", "/", "*", "*">>,
      <<"[", "*", "?", "]", "/">>, <<"[", "*", "?", "]", "/", "*">>, <<"f">>,
      <<"!">>, <<>> }

NoCall == [kind |-> "none"]

NoPrev == [valid |-> FALSE, lineData |-> <<>>, setSize |-> 0]

\* The editors: two on ignore documents inside a workspace folder, one on a
\* document of another language, one on an ignore document outside any folder
Editors == {"e1", "e2", "e3", "e4"}

LanguageId(editor) == IF editor = "e3" THEN "plaintext" ELSE "ignore"

InWorkspaceFolder(editor) == editor # "e4"

NoRun == [status |-> "none", editor |-> "none"]

Undecorated == [kind |-> "none", version |-> 0]

\* The provider after construction
ProvIdle ==
    /\ updateVersion = 0
    /\ runs = [v \in 1..MaxUpdates |-> NoRun]
    /\ decorations = [e \in Editors |-> Undecorated]
    /\ enabled = TRUE

NoParse == [type |-> "none", pattern |-> <<>>, isNegation |-> FALSE,
            isDirectory |-> FALSE, rawText |-> <<>>]

\* No line has been handed to the parser
ParseIdle ==
    /\ lineText = <<>>
    /\ processedLine = <<>>
    /\ parsed = NoParse

\* findMatches has not been called
MatchIdle ==
    /\ matchPattern = <<>>
    /\ matchFiles = <<>>
    /\ matched = <<>>

NoScan == [status |-> "none", startedAfter |-> 0, began |-> 0, got |-> 0]

\* The scanner after construction: cachedFiles = null, cacheInvalidated = true.
\* A file list is told apart by the number of invalidations that had
\* returned when its scan began; -1 stands for null.
ScanIdle ==
    /\ cachedFiles = -1
    /\ cacheInvalidated = TRUE
    /\ invalidations = 0
    /\ scans = [c \in 1..MaxScans |-> NoScan]

NoTimer == [state |-> "none", editor |-> "none", inBurst |-> FALSE, ran |-> 0]

\* No update is pending: updateTimeout is undefined
TimerIdle ==
    /\ updateTimeout = 0
    /\ timers = [t \in 1..MaxTimers |-> NoTimer]

\* The timer updateTimeout refers to has not fired yet
HasPending == updateTimeout # 0 /\ timers[updateTimeout].state = "pending"

\* if (this.updateTimeout) { clearTimeout(this.updateTimeout); ... }:
\* clearing a timer that has fired does nothing
ClearPending ==
    IF HasPending THEN [timers EXCEPT ![updateTimeout].state = "cleared"] ELSE timers

\* The configuration defaults, and no decoration built; the ignore file is
\* at the root of its workspace folder and the provider is not disposed
DecorIdle ==
    /\ currentStyle = "text"
    /\ showMatchCount = TRUE
    /\ noMatchDecorations = <<>>
    /\ matchCountDecorations = <<>>
    /\ relativeDir = <<>>
    /\ disposed = FALSE

\* The pass variables of a provider that has run no pass
PassIdle ==
    /\ foundFiles = <<>>
    /\ document = <<>>
    /\ countMode = "advanced"
    /\ workspaceFiles = <<>>
    /\ lineIndex = 0
    /\ lineData = <<>>
    /\ pc = "idle"
    /\ prev = NoPrev

UnitInit ==
    /\ cumulativeSet = {}
    /\ ignoredDirs = {}
    /\ last = NoCall
    /\ PassIdle
    /\ ProvIdle
    /\ ParseIdle
    /\ MatchIdle
    /\ ScanIdle
    /\ TimerIdle
    /\ DecorIdle

\* One call; the flags are those the parser derives from the text, except
\* that isNegation is the caller's (a test passes it beside the pattern).
Call(pattern, isNegation, matchingFiles) ==
    LET isDirectory == EndsWith(pattern, <<"/">>)
        r == calculateAdvancedCount(matchingFiles, isNegation, isDirectory,
                                    cumulativeSet, ignoredDirs, pattern)
    IN  /\ last = NoCall
        /\ cumulativeSet' = r.cumulativeSet
        /\ ignoredDirs' = r.ignoredDirs
        /\ last' = [kind |-> "call", pattern |-> pattern, isNegation |-> isNegation,
                    isDirectory |-> isDirectory, matchingFiles |-> matchingFiles,
                    setBefore |-> cumulativeSet, dirsBefore |-> ignoredDirs,
                    result |-> r]
        /\ UNCHANGED <<passVars, provVars, parseVars, matchVars, scanVars, timerVars, decorVars, relativeDir, disposed>>

CallNormal ==
    \E pattern \in UnitPatterns, matchingFiles \in SeqsNoDup(UnitPaths, MaxMatch) :
        Call(pattern, FALSE, matchingFiles)

CallNegation ==
    \E pattern \in UnitPatterns, matchingFiles \in SeqsNoDup(UnitPaths, MaxMatch) :
        Call(pattern, TRUE, matchingFiles)

\* The caller has read the result; the next call may be made.
Consume ==
    /\ last # NoCall
    /\ last' = NoCall
    /\ UNCHANGED <<cumulativeSet, ignoredDirs>>
    /\ UNCHANGED <<passVars, provVars, parseVars, matchVars, scanVars, timerVars, decorVars, relativeDir, disposed>>

Next == CallNormal \/ CallNegation \/ Consume

Spec == UnitInit /\ [][Next]_vars

----------------------------------------------------------------------------
(* Properties of a single calculateAdvancedCount call *)

IsCall == last.kind = "call"

CleanedPattern ==
    IF StartsWith(last.pattern, <<"!">>) THEN Substring(last.pattern, 1) ELSE last.pattern

\* C1: after a normal (non-negation) line, actionCount + noActionCount is the
\* number of matched paths, blockedCount is 0 and the ignored set has grown
\* by exactly actionCount.
C1_NormalConservation ==
    (IsCall /\ ~last.isNegation) =>
        /\ last.result.actionCount + last.result.noActionCount = Len(last.matchingFiles)
        /\ last.result.blockedCount = 0
        /\ last.result.setSize = Cardinality(last.setBefore) + last.result.actionCount
        /\ Cardinality(cumulativeSet) = last.result.setSize

C1_Witness ==
    /\ IsCall /\ ~last.isNegation
    /\ last.result.actionCount >= 1
    /\ last.result.noActionCount >= 1
    /\ last.setBefore # {}

\* C2: after a negation line, actionCount + noActionCount + blockedCount is
\* the number of matched paths and the ignored set has shrunk by exactly
\* actionCount.
C2_NegationConservation ==
    (IsCall /\ last.isNegation) =>
        /\ last.result.actionCount + last.result.noActionCount
               + last.result.blockedCount = Len(last.matchingFiles)
        /\ last.result.setSize = Cardinality(last.setBefore) - last.result.actionCount
        /\ Cardinality(cumulativeSet) = last.result.setSize

C2_Witness ==
    /\ IsCall /\ last.isNegation
    /\ last.result.actionCount >= 1
    /\ last.result.noActionCount >= 1
    /\ last.result.blockedCount >= 1

\* C5: after a negation line whose cleaned pattern is D/, D/** or D/*, the
\* prefix D/ is not in ignoredDirs, whatever was matched and whatever D is.
ReleaseTarget ==
    IF EndsWith(CleanedPattern, <<"/">>) THEN {CleanedPattern}
    ELSE IF EndsWith(CleanedPattern, <<"/", "*", "*">>) THEN {SliceEnd(CleanedPattern, 2)}
    ELSE IF EndsWith(CleanedPattern, <<"/", "*">>) THEN {SliceEnd(CleanedPattern, 1)}
    ELSE {}

C5_ReleaseRemovesPrefix ==
    (IsCall /\ last.isNegation) => (ReleaseTarget \cap ignoredDirs = {})

\* A prefix with [, ], * and ? in it was held and a line that matched nothing
\* released it.
C5_Witness ==
    /\ IsCall /\ last.isNegation
    /\ last.matchingFiles = <<>>
    /\ \E d \in ReleaseTarget : d \in last.dirsBefore /\ d[1] = "[" /\ HasWildcards(d)
    /\ EndsWith(CleanedPattern, <<"/", "*", "*">>)

\* C7: each path matched by a negation line takes exactly one of three
\* outcomes, decided on the prefixes left after the line's own release:
\* blocked (membership in the set unchanged), removed (action), or not in
\* the set (no action).
UnderPrefix(path, dirs) ==
    \E d \in dirs : Len(d) <= Len(path) /\ \A i \in 1..Len(d) : path[i] = d[i]

C7_NegationOutcomes ==
    (IsCall /\ last.isNegation) =>
        LET r == last.result
            blocked == Range(r.blockedFiles)
            action == Range(r.actionFiles)
            noAction == Range(r.noActionFiles)
        IN  /\ r.blockedCount = Cardinality(blocked)
            /\ r.actionCount = Cardinality(action)
            /\ r.noActionCount = Cardinality(noAction)
            /\ \A p \in Range(last.matchingFiles) :
                  IF UnderPrefix(p, ignoredDirs)
                  THEN /\ p \in blocked /\ p \notin action /\ p \notin noAction
                       /\ (p \in cumulativeSet <=> p \in last.setBefore)
                  ELSE IF p \in last.setBefore
                  THEN /\ p \in action /\ p \notin blocked /\ p \notin noAction
                       /\ p \notin cumulativeSet
                  ELSE /\ p \in noAction /\ p \notin blocked /\ p \notin action
                       /\ p \notin cumulativeSet
            /\ \A p \in UnitPaths \ Range(last.matchingFiles) :
                  p \in cumulativeSet <=> p \in last.setBefore

\* One line with all three outcomes, the blocked path being in the set and
\* the line having released another prefix first.
C7_Witness ==
    /\ IsCall /\ last.isNegation
    /\ last.result.blockedCount = 1
    /\ last.result.actionCount = 1
    /\ last.result.noActionCount = 1
    /\ Range(last.result.blockedFiles) \subseteq cumulativeSet
    /\ ignoredDirs # last.dirsBefore

\* C27: a negation call whose cleaned pattern is empty reports three zero
\* counts and leaves cumulativeSet and ignoredDirs as they were, whatever
\* match list it is given.
C27_MalformedNegationNoOp ==
    (IsCall /\ last.isNegation /\ CleanedPattern = <<>>) =>
        /\ last.result.actionCount = 0
        /\ last.result.noActionCount = 0
        /\ last.result.blockedCount = 0
        /\ cumulativeSet = last.setBefore
        /\ ignoredDirs = last.dirsBefore

\* C28: every member of ignoredDirs is a non-empty text that ends with a
\* slash, in every state reached from the two empty sets.
C28_PrefixesEndWithSlash ==
    \A dir \in ignoredDirs : dir # <<>> /\ dir[Len(dir)] = "/"

\* Two different prefixes are held after a call
C28_Witness ==
    /\ IsCall
    /\ Cardinality(ignoredDirs) >= 2
    /\ ignoredDirs # last.dirsBefore

\* C29: the normal line just processed, processed once more with the same
\* match list, reports actionCount 0 and noActionCount equal to the number
\* of matched paths, and leaves cumulativeSet and ignoredDirs as they are.
C29_NormalLineIdempotent ==
    (IsCall /\ ~last.isNegation) =>
        LET again == calculateAdvancedCount(last.matchingFiles, FALSE, last.isDirectory,
                                            cumulativeSet, ignoredDirs, last.pattern)
        IN  /\ again.actionCount = 0
            /\ again.noActionCount = Len(last.matchingFiles)
            /\ again.blockedCount = 0
            /\ again.cumulativeSet = cumulativeSet
            /\ again.ignoredDirs = ignoredDirs

\* The first processing added paths and a prefix
C29_Witness ==
    /\ IsCall /\ ~last.isNegation
    /\ last.result.actionCount >= 2
    /\ ignoredDirs # last.dirsBefore

\* The cleaned pattern ends with /, /** or /*
IsReleaseForm(p) ==
    \/ EndsWith(p, <<"/">>)
    \/ EndsWith(p, <<"/", "*", "*">>)
    \/ EndsWith(p, <<"/", "*">>)

\* C30: a negation line whose cleaned pattern ends with none of /, /** and
\* /* leaves ignoredDirs unchanged.
C30_OtherNegationsKeepPrefixes ==
    (IsCall /\ last.isNegation /\ ~IsReleaseForm(CleanedPattern)) =>
        ignoredDirs = last.dirsBefore

\* A negation of a file under a held directory was blocked and the
\* directory stayed held
C30_Witness ==
    /\ IsCall /\ last.isNegation
    /\ last.pattern = <<"d", "/", "f">>
    /\ <<"d", "/">> \in last.dirsBefore
    /\ last.result.blockedCount >= 1
    /\ <<"d", "/">> \in ignoredDirs

\* C35: a normal pattern line removes no path from the set and no prefix
\* from ignoredDirs; a negation line adds no path to the set and no prefix
\* to ignoredDirs.
C35_OneDirectionPerKind ==
    /\ (IsCall /\ ~last.isNegation) =>
           /\ last.setBefore \subseteq cumulativeSet
           /\ last.dirsBefore \subseteq ignoredDirs
    /\ (IsCall /\ last.isNegation) =>
           /\ cumulativeSet \subseteq last.setBefore
           /\ ignoredDirs \subseteq last.dirsBefore

\* C35 witness: a negation matched a path outside the set and a path in
\* it, removed the latter and released a prefix, the sets being non-empty
C35_Witness ==
    /\ IsCall /\ last.isNegation
    /\ last.result.noActionCount >= 1
    /\ last.result.actionCount >= 1
    /\ ignoredDirs # last.dirsBefore
    /\ cumulativeSet # {}

----------------------------------------------------------------------------
(* decorationProvider.ts: the evaluation of one document by                *)
(* updateDecorations, one loop iteration per step.                         *)

DocFiles ==
    { <<"d", "/", "o">>, <<"d", "/", "e", "/", "f">>, <<"x", "/", "d", "/", "f">> }

DocLines ==
    { <<"d", "/">>, <<"d", "/", "e", "/">>, <<"d", "/", "*">>,
      <<"!", "d", "/", "o">>, <<"!", "d", "/">>, <<"#", "c">>, <<>> }

\* All sequences over S of length at most n
RECURSIVE SeqsUpTo(_, _)
SeqsUpTo(S, n) ==
    IF n = 0 THEN {<<>>}
    ELSE LET shorter == SeqsUpTo(S, n - 1)
         IN  shorter \cup {Append(q, x) : q \in {r \in shorter : Len(r) = n - 1}, x \in S}

DocInit ==
    /\ cumulativeSet = {}
    /\ ignoredDirs = {}
    /\ last = NoCall
    /\ foundFiles \in SeqsNoDup(DocFiles, MaxFiles)
    /\ document \in SeqsUpTo(DocLines, MaxLines)
    /\ countMode \in {"basic", "advanced"}
    /\ workspaceFiles = <<>>
    /\ lineIndex = 0
    /\ lineData = <<>>
    /\ pc = "idle"
    /\ prev = NoPrev
    /\ ProvIdle
    /\ ParseIdle
    /\ MatchIdle
    /\ ScanIdle
    /\ TimerIdle
    /\ DecorIdle

\* A pass that carries the two sets over from the pass before
StartPass_KeepSets ==
    /\ pc \in {"idle", "done"}
    /\ workspaceFiles' = getFilesInFolder(foundFiles)
    /\ prev' = IF pc = "done"
               THEN [valid |-> TRUE, lineData |-> lineData,
                     setSize |-> Cardinality(cumulativeSet)]
               ELSE prev
    /\ lineData' = <<>>
    /\ lineIndex' = 0
    /\ last' = NoCall
    /\ pc' = "loop"
    /\ UNCHANGED <<cumulativeSet, ignoredDirs, foundFiles, document, countMode>>
    /\ UNCHANGED <<provVars, parseVars, matchVars, scanVars, timerVars, decorVars, relativeDir, disposed>>

\* The pass up to its loop: the candidate paths are fetched and lineData,
\* cumulativeSet and ignoredDirs are created empty.
StartPass ==
    /\ pc \in {"idle", "done"}
    /\ workspaceFiles' = getFilesInFolder(foundFiles)
    /\ prev' = IF pc = "done"
               THEN [valid |-> TRUE, lineData |-> lineData,
                     setSize |-> Cardinality(cumulativeSet)]
               ELSE prev
    /\ lineData' = <<>>
    /\ lineIndex' = 0
    /\ cumulativeSet' = {}
    /\ ignoredDirs' = {}
    /\ last' = NoCall
    /\ pc' = "loop"
    /\ UNCHANGED <<foundFiles, document, countMode>>
    /\ UNCHANGED <<provVars, parseVars, matchVars, scanVars, timerVars, decorVars, relativeDir, disposed>>

CurrentLine == document[lineIndex + 1]

\* A comment or blank line gets an outcome of zero counts
SkipLine_EmitOutcome ==
    /\ pc = "loop"
    /\ lineIndex < Len(document)
    /\ parseLine(CurrentLine).type \in {"comment", "blank"}
    /\ lineIndex' = lineIndex + 1
    /\ last' = NoCall
    /\ lineData' = Append(lineData,
           [lineIndex |-> lineIndex, lineLength |-> Len(CurrentLine),
            actionCount |-> 0, noActionCount |-> 0, blockedCount |-> 0,
            setSize |-> Cardinality(cumulativeSet), isNegation |-> FALSE])
    /\ UNCHANGED <<cumulativeSet, ignoredDirs, foundFiles, document, countMode,
                   workspaceFiles, pc, prev>>
    /\ UNCHANGED <<provVars, parseVars, matchVars, scanVars, timerVars, decorVars, relativeDir, disposed>>

\* A loop iteration on a comment or blank line
SkipLine ==
    /\ pc = "loop"
    /\ lineIndex < Len(document)
    /\ parseLine(CurrentLine).type \in {"comment", "blank"}
    /\ lineIndex' = lineIndex + 1
    /\ last' = NoCall
    /\ UNCHANGED <<cumulativeSet, ignoredDirs, foundFiles, document, countMode,
                   workspaceFiles, lineData, pc, prev>>
    /\ UNCHANGED <<provVars, parseVars, matchVars, scanVars, timerVars, decorVars, relativeDir, disposed>>

\* A loop iteration on a pattern line
PatternLine ==
    /\ pc = "loop"
    /\ lineIndex < Len(document)
    /\ \E parsedLine \in {parseLine(CurrentLine)} :
       \E matchResult \in {findMatches(parsedLine.pattern, workspaceFiles)} :
       \E r \in {calculateAdvancedCount(matchResult.matchingFiles, parsedLine.isNegation,
                                       parsedLine.isDirectory, cumulativeSet, ignoredDirs,
                                       parsedLine.pattern)} :
           /\ parsedLine.type = "pattern"
           /\ IF countMode = "advanced"
              THEN /\ cumulativeSet' = r.cumulativeSet
                   /\ ignoredDirs' = r.ignoredDirs
                   /\ last' = [kind |-> "call", pattern |-> parsedLine.pattern,
                               isNegation |-> parsedLine.isNegation,
                               isDirectory |-> parsedLine.isDirectory,
                               matchingFiles |-> matchResult.matchingFiles,
                               setBefore |-> cumulativeSet, dirsBefore |-> ignoredDirs,
                               result |-> r]
                   /\ lineData' = Append(lineData,
                          [lineIndex |-> lineIndex, lineLength |-> Len(CurrentLine),
                           actionCount |-> r.actionCount, noActionCount |-> r.noActionCount,
                           blockedCount |-> r.blockedCount, setSize |-> r.setSize,
                           isNegation |-> parsedLine.isNegation])
              ELSE /\ UNCHANGED <<cumulativeSet, ignoredDirs>>
                   /\ last' = NoCall
                   /\ lineData' = Append(lineData,
                          [lineIndex |-> lineIndex, lineLength |-> Len(CurrentLine),
                           actionCount |-> Len(matchResult.matchingFiles),
                           noActionCount |-> 0, blockedCount |-> 0, setSize |-> 0,
                           isNegation |-> parsedLine.isNegation])
    /\ lineIndex' = lineIndex + 1
    /\ UNCHANGED <<foundFiles, document, countMode, workspaceFiles, pc, prev>>
    /\ UNCHANGED <<provVars, parseVars, matchVars, scanVars, timerVars, decorVars, relativeDir, disposed>>

\* The loop has reached document.lineCount
FinishPass ==
    /\ pc = "loop"
    /\ lineIndex = Len(document)
    /\ pc' = "done"
    /\ UNCHANGED <<evalVars, foundFiles, document, countMode, workspaceFiles,
                   lineIndex, lineData, prev>>
    /\ UNCHANGED <<provVars, parseVars, matchVars, scanVars, timerVars, decorVars, relativeDir, disposed>>

DocNext == StartPass \/ SkipLine \/ PatternLine \/ FinishPass

SpecDoc == DocInit /\ [][DocNext]_vars

\* C10: a second pass over the same lines and the same candidates, started
\* with freshly created sets, reports the same per-line outcomes and ends
\* with the same set size as the first.
C10_Determinism ==
    (pc = "done" /\ prev.valid) =>
        /\ lineData = prev.lineData
        /\ Cardinality(cumulativeSet) = prev.setSize

\* Both passes added paths, recorded a prefix and had a negation blocked.
C10_Witness ==
    /\ pc = "done" /\ prev.valid
    /\ countMode = "advanced"
    /\ Len(lineData) >= 2
    /\ cumulativeSet # {}
    /\ ignoredDirs # {}
    /\ \E i \in 1..Len(lineData) : lineData[i].blockedCount > 0

----------------------------------------------------------------------------
(* Directory blocking over the lines of a document. `last` describes the   *)
(* pattern line at position lineIndex; the earlier lines are read back     *)
(* from the document.                                                      *)

ParsedAt(j) == parseLine(document[j])

MatchesAt(j) == findMatches(ParsedAt(j).pattern, workspaceFiles).matchingFiles

\* Line j is a normal pattern `dir/` without wildcard that matched a file
ExplicitDirAt(j) ==
    /\ ParsedAt(j).type = "pattern"
    /\ ~ParsedAt(j).isNegation
    /\ EndsWith(ParsedAt(j).pattern, <<"/">>)
    /\ ~HasWildcards(ParsedAt(j).pattern)
    /\ MatchesAt(j) # <<>>

\* Line k is a negation !dir/, !dir/** or !dir/* of the directory text dir/
ReleasesAt(k, dirText) ==
    /\ ParsedAt(k).type = "pattern"
    /\ ParsedAt(k).isNegation
    /\ Substring(ParsedAt(k).pattern, 1)
           \in {dirText, dirText \o <<"*", "*">>, dirText \o <<"*">>}

\* Line j is an explicit directory pattern that no line of from..to releases
HeldAt(j, from, to) ==
    /\ ExplicitDirAt(j)
    /\ \A k \in from..to : ~ReleasesAt(k, ParsedAt(j).pattern)

NegationJustRun == IsCall /\ last.isNegation /\ lineIndex >= 1

\* C3: once a normal pattern `dir/` without wildcard has matched a file,
\* every later negation line counts each matched path starting with `dir/`
\* as blocked, never as action, and leaves it in the set, until a negation
\* !dir/, !dir/** or !dir/* has been processed.
C3_DirectoryBlocking ==
    NegationJustRun =>
        \A j \in 1..(lineIndex - 1) :
            HeldAt(j, j + 1, lineIndex) =>
                \A p \in Range(last.matchingFiles) :
                    StartsWith(p, ParsedAt(j).pattern) =>
                        /\ p \in Range(last.result.blockedFiles)
                        /\ p \notin Range(last.result.actionFiles)
                        /\ (p \in last.setBefore => p \in cumulativeSet)

\* C4: a normal pattern adds a prefix only when its text ends with `/` and
\* has no `*` or `?`; and a path in the set that only wildcard patterns
\* matched is removed, not blocked, by a later negation that matches it.
OnlyGlobMatched(p) ==
    /\ \E j \in 1..(lineIndex - 1) :
          /\ ParsedAt(j).type = "pattern" /\ ~ParsedAt(j).isNegation
          /\ HasWildcards(ParsedAt(j).pattern)
          /\ p \in Range(MatchesAt(j))
    /\ \A j \in 1..(lineIndex - 1) :
          (/\ ParsedAt(j).type = "pattern" /\ ~ParsedAt(j).isNegation
           /\ p \in Range(MatchesAt(j)))
              => HasWildcards(ParsedAt(j).pattern)

C4_GlobPatternsDoNotBlock ==
    /\ (IsCall /\ ~last.isNegation /\ ignoredDirs # last.dirsBefore) =>
           (EndsWith(last.pattern, <<"/">>) /\ ~HasWildcards(last.pattern))
    /\ NegationJustRun =>
           \A p \in Range(last.matchingFiles) :
               (p \in last.setBefore /\ OnlyGlobMatched(p)) =>
                   /\ p \in Range(last.result.actionFiles)
                   /\ p \notin Range(last.result.blockedFiles)

\* C6: when the only line that added a prefix is the explicit directory
\* pattern P, a later line !P blocks nothing, removes every matched path
\* that is in the set and leaves ignoredDirs empty.
C6_SelfNegationNotBlocked ==
    NegationJustRun =>
        \A j \in 1..(lineIndex - 1) :
            (/\ ExplicitDirAt(j)
             /\ \A k \in 1..(lineIndex - 1) : ExplicitDirAt(k) => k = j
             /\ last.pattern = <<"!">> \o ParsedAt(j).pattern) =>
                /\ last.result.blockedCount = 0
                /\ \A p \in Range(last.matchingFiles) : p \notin cumulativeSet
                /\ ignoredDirs = {}

\* C8: a negation line reports a path as blocked only if an earlier explicit
\* directory pattern, not released since, matched that path.
C8_BlockedOnlyUnderExcludedDir ==
    NegationJustRun =>
        \A p \in Range(last.result.blockedFiles) :
            \E j \in 1..(lineIndex - 1) :
                /\ HeldAt(j, j + 1, lineIndex)
                /\ p \in Range(MatchesAt(j))

\* lineData and the two sets as updateDecorations creates them
EmptyPass == [lineData |-> <<>>, cumulativeSet |-> {}, ignoredDirs |-> {}]

\* The loop of updateDecorations over the lines from position i on, run on
\* a given candidate list
RECURSIVE EvaluateLines(_, _, _, _, _)
EvaluateLines(lines, files, mode, i, acc) ==
    IF i > Len(lines) THEN acc
    ELSE LET parsedLine == parseLine(lines[i])
             matchResult == findMatches(parsedLine.pattern, files)
             r == calculateAdvancedCount(matchResult.matchingFiles, parsedLine.isNegation,
                                         parsedLine.isDirectory, acc.cumulativeSet,
                                         acc.ignoredDirs, parsedLine.pattern)
         IN  IF parsedLine.type \in {"comment", "blank"}
             THEN EvaluateLines(lines, files, mode, i + 1, acc)
             ELSE IF mode = "advanced"
             THEN EvaluateLines(lines, files, mode, i + 1,
                      [lineData |-> Append(acc.lineData,
                           [lineIndex |-> i - 1, lineLength |-> Len(lines[i]),
                            actionCount |-> r.actionCount,
                            noActionCount |-> r.noActionCount,
                            blockedCount |-> r.blockedCount, setSize |-> r.setSize,
                            isNegation |-> parsedLine.isNegation]),
                       cumulativeSet |-> r.cumulativeSet,
                       ignoredDirs |-> r.ignoredDirs])
             ELSE EvaluateLines(lines, files, mode, i + 1,
                      [acc EXCEPT !.lineData = Append(acc.lineData,
                           [lineIndex |-> i - 1, lineLength |-> Len(lines[i]),
                            actionCount |-> Len(matchResult.matchingFiles),
                            noActionCount |-> 0, blockedCount |-> 0, setSize |-> 0,
                            isNegation |-> parsedLine.isNegation])])

\* The orders in which the scan can return the same files
Reorderings(files) ==
    {q \in SeqsNoDup(Range(files), Len(files)) : Len(q) = Len(files)}

\* C11: the document evaluated against the candidates of any other order
\* of the same files gives the same outcome on every line and the same
\* final set.
C11_CandidateOrderIrrelevant ==
    pc = "done" =>
        \A other \in Reorderings(foundFiles) :
            LET e == EvaluateLines(document, getFilesInFolder(other), countMode, 1,
                                   EmptyPass)
            IN  /\ e.lineData = lineData
                /\ e.cumulativeSet = cumulativeSet

\* The loop is about to handle a line
AtLine == pc = "loop" /\ lineIndex < Len(document)

C34_SetHoldsAddedCandidates ==
    /\ [](pc # "idle" =>
            /\ cumulativeSet \subseteq Range(workspaceFiles)
            /\ \A k \in 1..Len(lineData) :
                  lineData[k].setSize \in 0..Cardinality(Range(workspaceFiles)))
    /\ [][(pc = "loop" /\ pc' = "loop") =>
             /\ \A p \in cumulativeSet' \ cumulativeSet :
                   /\ last'.kind = "call" /\ ~last'.isNegation
                   /\ p \in Range(last'.matchingFiles)
             /\ \A p \in cumulativeSet \ cumulativeSet' :
                   /\ last'.kind = "call" /\ last'.isNegation
                   /\ p \in Range(last'.matchingFiles)
                   /\ p \notin Range(last'.result.blockedFiles)
             /\ (last'.kind = "call" /\ last'.isNegation) =>
                   \A p \in Range(last'.matchingFiles) \ Range(last'.result.blockedFiles) :
                       p \notin cumulativeSet']_vars

\* C34 witness: a negation line removed one path, had another blocked, and
\* paths added by earlier normal lines are still in the set
C34_Witness ==
    /\ IsCall /\ last.isNegation
    /\ countMode = "advanced"
    /\ last.result.actionCount >= 1
    /\ last.result.blockedCount >= 1
    /\ cumulativeSet # {}
    /\ Cardinality(cumulativeSet) < Cardinality(Range(workspaceFiles))

----------------------------------------------------------------------------
(* decorationProvider.ts: overlapping updateDecorations calls. A call runs *)
(* up to its await of the file scan in one step and from the resumption to *)
(* its return in another; the results a run computes are identified by the *)
(* version the run took.                                                   *)

ProvInit ==
    /\ cumulativeSet = {}
    /\ ignoredDirs = {}
    /\ last = NoCall
    /\ PassIdle
    /\ ProvIdle
    /\ ParseIdle
    /\ MatchIdle
    /\ ScanIdle
    /\ TimerIdle
    /\ DecorIdle

\* updateDecorations(editor) up to its first return or await; every call
\* takes the next version, whatever it does afterwards.
Begin(editor, status) ==
    /\ ~disposed
    /\ updateVersion < MaxUpdates
    /\ updateVersion' = updateVersion + 1
    /\ runs' = [runs EXCEPT ![updateVersion + 1] = [status |-> status, editor |-> editor]]
    /\ UNCHANGED <<parseVars, matchVars, scanVars, timerVars, decorVars, relativeDir, disposed, evalVars, passVars, enabled>>

\* A disabled run that leaves the editor's decorations in place
UpdateDisabled_KeepDecorations ==
    \E editor \in Editors :
        /\ ~enabled
        /\ Begin(editor, "cleared")
        /\ UNCHANGED decorations

\* The extension is disabled: both decoration sets of the editor are cleared
UpdateDisabled ==
    \E editor \in Editors :
        /\ ~enabled
        /\ Begin(editor, "cleared")
        /\ decorations' = [decorations EXCEPT ![editor] = [kind |-> "cleared", version |-> 0]]

\* The document is not an ignore file
UpdateNotIgnore ==
    \E editor \in Editors :
        /\ enabled
        /\ LanguageId(editor) # "ignore"
        /\ Begin(editor, "returned")
        /\ UNCHANGED decorations

\* The document is in no workspace folder
UpdateNoFolder ==
    \E editor \in Editors :
        /\ enabled
        /\ LanguageId(editor) = "ignore"
        /\ ~InWorkspaceFolder(editor)
        /\ Begin(editor, "returned")
        /\ UNCHANGED decorations

\* The call awaits getFilesInFolder
UpdateScan ==
    \E editor \in Editors :
        /\ enabled
        /\ LanguageId(editor) = "ignore"
        /\ InWorkspaceFolder(editor)
        /\ Begin(editor, "scanning")
        /\ UNCHANGED decorations

\* A resumed run that takes itself for stale whatever the version
DiscardStale_AlwaysStale ==
    \E v \in 1..MaxUpdates :
        /\ runs[v].status = "scanning"
        /\ runs' = [runs EXCEPT ![v].status = "discarded"]
        /\ UNCHANGED <<parseVars, matchVars, scanVars, timerVars, decorVars, relativeDir, disposed, evalVars, passVars, updateVersion, decorations, enabled>>

\* The scan has returned and a newer call has started: the run is dropped
DiscardStale ==
    \E v \in 1..MaxUpdates :
        /\ runs[v].status = "scanning"
        /\ v # updateVersion
        /\ runs' = [runs EXCEPT ![v].status = "discarded"]
        /\ UNCHANGED <<parseVars, matchVars, scanVars, timerVars, decorVars, relativeDir, disposed, evalVars, passVars, updateVersion, decorations, enabled>>

\* A resumed run that applies without comparing versions
ApplyResults_NoCheck ==
    \E v \in 1..MaxUpdates :
        /\ runs[v].status = "scanning"
        /\ runs' = [runs EXCEPT ![v].status = "applied"]
        /\ decorations' = [decorations EXCEPT
                              ![runs[v].editor] = [kind |-> "results", version |-> v]]
        /\ UNCHANGED <<parseVars, matchVars, scanVars, timerVars, decorVars, relativeDir, disposed, evalVars, passVars, updateVersion, enabled>>

\* The scan has returned and no newer call has started: the lines are
\* evaluated and setDecorations is called with the results, all without
\* another await (the second comparison sees the version of the first).
ApplyResults ==
    \E v \in 1..MaxUpdates :
        /\ runs[v].status = "scanning"
        /\ v = updateVersion
        /\ runs' = [runs EXCEPT ![v].status = "applied"]
        /\ decorations' = [decorations EXCEPT
                              ![runs[v].editor] = [kind |-> "results", version |-> v]]
        /\ UNCHANGED <<parseVars, matchVars, scanVars, timerVars, decorVars, relativeDir, disposed, evalVars, passVars, updateVersion, enabled>>

\* The awaited getFilesInFolder rejects: the await is in no try block, so
\* the call ends there and its promise rejects; nothing is decorated.
ScanFails ==
    \E v \in 1..MaxUpdates :
        /\ runs[v].status = "scanning"
        /\ runs' = [runs EXCEPT ![v].status = "failed"]
        /\ UNCHANGED <<parseVars, matchVars, scanVars, timerVars, decorVars, relativeDir, disposed, evalVars, passVars, updateVersion, decorations, enabled>>

\* The user changes ignorelens.enabled
SetEnabled ==
    /\ enabled' = ~enabled
    /\ UNCHANGED <<parseVars, matchVars, scanVars, timerVars, decorVars, relativeDir, disposed, evalVars, passVars, updateVersion, runs, decorations>>

\* dispose(), called by deactivate, which then drops its reference to the
\* provider: the decoration types are disposed and a pending timer is
\* cleared; updateVersion is left as it is
Dispose ==
    /\ ~disposed
    /\ disposed' = TRUE
    /\ timers' = ClearPending
    /\ UNCHANGED updateTimeout
    /\ UNCHANGED <<parseVars, matchVars, scanVars, decorVars, relativeDir, evalVars, passVars, provVars>>

ProvNext ==
    \/ UpdateDisabled \/ UpdateNotIgnore \/ UpdateNoFolder \/ UpdateScan
    \/ DiscardStale \/ ApplyResults \/ ScanFails \/ SetEnabled \/ Dispose

SpecProv == ProvInit /\ [][ProvNext]_vars

\* C9: a run applies its results only while no call has started after it,
\* and the results an editor shows are never replaced by those of an older
\* run.
C9_StaleNeverApplies ==
    [][\A v \in 1..MaxUpdates :
          (runs[v].status = "scanning" /\ runs'[v].status = "applied") =>
              /\ v = updateVersion
              /\ \A w \in (v + 1)..MaxUpdates : runs[w].status = "none"
              /\ \A e \in Editors :
                    (decorations[e].kind = "results" /\ decorations'[e].kind = "results")
                        => decorations'[e].version >= decorations[e].version]_vars

\* Two calls overlapped on one editor: the older was dropped after its scan
\* and the newer applied.
C9_Witness ==
    \E v \in 1..MaxUpdates, w \in 1..MaxUpdates :
        /\ v < w
        /\ runs[v].editor = runs[w].editor
        /\ runs[v].status = "discarded"
        /\ runs[w].status = "applied"
        /\ decorations[runs[w].editor] = [kind |-> "results", version |-> w]

\* C31: once updateDecorations has run for an editor while the extension is
\* disabled, the editor shows the cleared decorations until a pass that
\* started after that run applies: no pass started before it applies later.
C31_DisabledRunClears ==
    \A w \in 1..MaxUpdates :
        runs[w].status = "cleared" =>
            \/ decorations[runs[w].editor].kind = "cleared"
            \/ /\ decorations[runs[w].editor].kind = "results"
               /\ decorations[runs[w].editor].version > w

\* C31 witness: a pass was awaiting its scan when a disabled run was made
\* for the same editor; the pass was dropped and the editor shows nothing
C31_Witness ==
    \E v \in 1..MaxUpdates, w \in 1..MaxUpdates :
        /\ v < w
        /\ runs[v].editor = runs[w].editor
        /\ runs[v].status = "discarded"
        /\ runs[w].status = "cleared"
        /\ decorations[runs[w].editor].kind = "cleared"

\* C37: a pass is dropped as stale only when a newer call was made for the
\* same editor.
C37_StaleOnlyBySameEditor ==
    \A v \in 1..MaxUpdates :
        runs[v].status = "discarded" =>
            \E w \in (v + 1)..MaxUpdates :
                runs[w].status # "none" /\ runs[w].editor = runs[v].editor

\* C38: after dispose() has returned no timer is pending and no decoration
\* is applied: no pass that was awaiting its scan goes on to setDecorations.
C38_NothingAppliedAfterDispose ==
    /\ [](disposed => \A t \in 1..MaxTimers : timers[t].state # "pending")
    /\ [][disposed =>
             /\ decorations' = decorations
             /\ \A v \in 1..MaxUpdates :
                   runs'[v].status = "applied" => runs[v].status = "applied"]_vars

\* The provider while the extension stays enabled and is not disposed, with
\* every run that awaits its scan resumed in the end
ProvLiveNext ==
    \/ UpdateNotIgnore \/ UpdateNoFolder \/ UpdateScan
    \/ DiscardStale \/ ApplyResults \/ ScanFails

SpecProvLive ==
    ProvInit /\ [][ProvLiveNext]_vars /\ WF_vars(DiscardStale) /\ WF_vars(ApplyResults)

C24_DegradesToEmptyCandidates ==
    \A v \in 1..MaxUpdates :
        LanguageId(runs[v].editor) = "ignore" => runs[v].status \notin {"returned", "failed"}

----------------------------------------------------------------------------
(* ignoreParser.ts: parseLine applied to one line of text *)

\* Longest line handed to parseLine.
MaxLineLen == 4

\* The characters of the lines: a letter, the slash, the whitespace
\* characters and the characters parseLine looks for
ParseChars == {"a", "/", " ", "\t", "\r", "\\", "#", "!"}

ParseInit ==
    /\ cumulativeSet = {}
    /\ ignoredDirs = {}
    /\ last = NoCall
    /\ PassIdle
    /\ ProvIdle
    /\ lineText \in SeqsUpTo(ParseChars, MaxLineLen)
    /\ processedLine = <<>>
    /\ parsed = NoParse
    /\ MatchIdle
    /\ ScanIdle
    /\ TimerIdle
    /\ DecorIdle

\* parser.parseLine(lineText)
ParseLine ==
    /\ parsed = NoParse
    /\ processedLine' = TrailingProcessed(lineText)
    /\ parsed' = parseLine(lineText)
    /\ UNCHANGED <<lineText, evalVars, passVars, provVars, matchVars, scanVars, timerVars, decorVars, relativeDir, disposed>>

ParseNext == ParseLine

SpecParse == ParseInit /\ [][ParseNext]_vars

HasParsed == parsed # NoParse

\* C13: a line classified blank or comment has isNegation and isDirectory
\* false and the empty pattern.
C13_NonPatternFieldsEmpty ==
    (HasParsed /\ parsed.type \in {"blank", "comment"}) =>
        /\ ~parsed.isNegation
        /\ ~parsed.isDirectory
        /\ parsed.pattern = <<>>

\* A comment line that ends with a slash, and so looks like a directory
C13_Witness ==
    /\ HasParsed
    /\ parsed.type = "comment"
    /\ EndsWith(lineText, <<"/">>)

\* C14: rawText is the input line, character for character, whatever the
\* kind of the line.
C14_RawTextIsInput ==
    HasParsed => parsed.rawText = lineText

\* A pattern line with whitespace on both ends, whose pattern differs from it
C14_Witness ==
    /\ HasParsed
    /\ parsed.type = "pattern"
    /\ Len(lineText) >= 3
    /\ lineText[1] \in RegexSpace
    /\ lineText[Len(lineText)] \in RegexSpace
    /\ parsed.pattern # lineText
    /\ parsed.rawText = lineText

\* The line ends with a backslash followed by one space or tab
EscapedEnd(s) ==
    /\ Len(s) >= 2
    /\ s[Len(s) - 1] = "\\"
    /\ s[Len(s)] \in {" ", "\t"}

\* C15: when the line ends with a backslash and one space or tab, the
\* processed text is the line without that backslash, the whitespace
\* character kept last; otherwise it is the line without its whole run of
\* trailing whitespace, and does not end with whitespace.
C15_TrailingWhitespaceRule ==
    HasParsed =>
        IF EscapedEnd(lineText)
        THEN /\ Len(processedLine) = Len(lineText) - 1
             /\ SubSeq(processedLine, 1, Len(lineText) - 2)
                    = SubSeq(lineText, 1, Len(lineText) - 2)
             /\ processedLine[Len(processedLine)] = lineText[Len(lineText)]
        ELSE /\ Len(processedLine) <= Len(lineText)
             /\ processedLine = SubSeq(lineText, 1, Len(processedLine))
             /\ \A i \in (Len(processedLine) + 1)..Len(lineText) :
                    lineText[i] \in RegexSpace
             /\ processedLine # <<>> =>
                    processedLine[Len(processedLine)] \notin RegexSpace

\* An escaped trailing space after some text and whitespace
C15_Witness ==
    /\ HasParsed
    /\ EscapedEnd(lineText)
    /\ Len(lineText) >= 4
    /\ lineText[Len(lineText) - 2] \in RegexSpace
    /\ parsed.type = "pattern"
    /\ parsed.pattern[Len(parsed.pattern)] = " "

\* C16: a processed text starting with \# gives a pattern, not a comment,
\* with isNegation false and the text without that one backslash.
C16_EscapedHashIsPattern ==
    (HasParsed /\ StartsWith(processedLine, <<"\\", "#">>)) =>
        /\ parsed.type = "pattern"
        /\ ~parsed.isNegation
        /\ parsed.pattern = Substring(processedLine, 1)
        /\ parsed.pattern[1] = "#"

\* An escaped # followed by ! and more text
C16_Witness ==
    /\ HasParsed
    /\ StartsWith(processedLine, <<"\\", "#", "!">>)
    /\ Len(processedLine) >= 4
    /\ parsed.type = "pattern"

\* C17 as stated: a processed text starting with ! gives isNegation true
\* and a pattern without that leading !.
C17_NegationConsumed ==
    (HasParsed /\ StartsWith(processedLine, <<"!">>)) =>
        /\ parsed.isNegation
        /\ parsed.pattern = Substring(processedLine, 1)

\* C17 amended: a processed text starting with ! gives a pattern line with
\* isNegation true whose pattern is the processed text, the ! still first.
C17_NegationKeepsBang ==
    (HasParsed /\ StartsWith(processedLine, <<"!">>)) =>
        /\ parsed.type = "pattern"
        /\ parsed.isNegation
        /\ parsed.pattern = processedLine
        /\ parsed.pattern[1] = "!"

\* A negation of a directory pattern was parsed
C17_Witness ==
    /\ HasParsed
    /\ StartsWith(processedLine, <<"!", "a">>)
    /\ parsed.isNegation
    /\ parsed.isDirectory

\* C18: a processed text starting with \! gives isNegation false and the
\* text without the backslash, so the pattern starts with a literal !.
C18_EscapedBangIsLiteral ==
    (HasParsed /\ StartsWith(processedLine, <<"\\", "!">>)) =>
        /\ parsed.type = "pattern"
        /\ ~parsed.isNegation
        /\ parsed.pattern = Substring(processedLine, 1)
        /\ parsed.pattern[1] = "!"

\* An escaped ! followed by text
C18_Witness ==
    /\ HasParsed
    /\ StartsWith(processedLine, <<"\\", "!", "a">>)
    /\ parsed.type = "pattern"
    /\ ~parsed.isNegation

\* Number of whitespace characters the text starts with
RECURSIVE LeadingSpace(_)
LeadingSpace(s) ==
    IF Len(s) > 0 /\ s[1] \in RegexSpace THEN 1 + LeadingSpace(Tail(s)) ELSE 0

CleanedOf(p) == IF p.isNegation THEN Substring(p.pattern, 1) ELSE p.pattern

\* C20: no line is returned as a pattern with an empty cleaned pattern.
C20_NoEmptyPattern ==
    (HasParsed /\ parsed.type = "pattern") => CleanedOf(parsed) # <<>>

\* Candidates that tell the text `a` from the text `!a`
BangCandidates == << <<"a">>, <<"!", "a">>, <<"!">> >>

\* C33: for a pattern line, findMatches on the parser's pattern reports the
\* parser's isNegation flag, and it matches the candidates with the
\* parser's pattern less the `!` of a negation and nothing else removed (a
\* line `\!a` is not matched as `a`).
C33_MatcherAgreesWithParser ==
    (HasParsed /\ parsed.type = "pattern") =>
        LET m == findMatches(parsed.pattern, BangCandidates)
        IN  /\ m.isNegation = parsed.isNegation
            /\ m.matchingFiles = Filter(CleanedOf(parsed), BangCandidates)

----------------------------------------------------------------------------
(* Matcher level: one findMatches call on every pattern of MatchPatterns   *)
(* and every candidate list of up to MaxCandidates paths, repeats allowed. *)

\* Candidate paths: files at the root and in a directory, and a directory entry
MatchPaths == {<<"f">>, <<"g">>, <<"d", "/", "f">>, <<"d", "/">>}

MatchPatterns ==
    {<<"f">>, <<"d", "/">>, <<"d", "/", "*">>, <<"*">>,
     <<"!", "f">>, <<"!", "d", "/">>, <<"!", "d", "/", "*">>, <<"!", "*">>,
     <<"!", "!", "f">>, <<"!">>, <<>>}

MatchInit ==
    /\ cumulativeSet = {}
    /\ ignoredDirs = {}
    /\ last = NoCall
    /\ PassIdle
    /\ ProvIdle
    /\ ParseIdle
    /\ ScanIdle
    /\ TimerIdle
    /\ DecorIdle
    /\ matchPattern \in MatchPatterns
    /\ matchFiles \in SeqsUpTo(MatchPaths, MaxCandidates)
    /\ matched = <<>>

\* matcher.findMatches(matchPattern, matchFiles)
FindMatches ==
    /\ matched = <<>>
    /\ matched' = <<findMatches(matchPattern, matchFiles)>>
    /\ UNCHANGED <<matchPattern, matchFiles, evalVars, passVars, provVars, parseVars,
                   scanVars, timerVars, decorVars, relativeDir, disposed>>

MatchNext == FindMatches

SpecMatch == MatchInit /\ [][MatchNext]_vars

HasMatched == matched # <<>>

Elements(list) == {list[k] : k \in 1..Len(list)}

C22_NoDuplicateMatches ==
    HasMatched =>
        \A i, j \in 1..Len(matched[1].matchingFiles) :
            matched[1].matchingFiles[i] = matched[1].matchingFiles[j] => i = j

\* C23: for a pattern p that does not start with `!`, findMatches('!' + p)
\* reports isNegation = true and findMatches(p) reports isNegation = false,
\* and both report the same matching paths.
C23_NegationMatchesAsPlain ==
    (/\ HasMatched
     /\ StartsWith(matchPattern, <<"!">>)
     /\ ~StartsWith(Substring(matchPattern, 1), <<"!">>)) =>
        LET plain == findMatches(Substring(matchPattern, 1), matchFiles)
        IN  /\ matched[1].isNegation
            /\ ~plain.isNegation
            /\ matched[1].matchingFiles = plain.matchingFiles

\* C23 witness: `!d/*` matched the file under d/ and not the root file
C23_Witness ==
    /\ HasMatched
    /\ matchPattern = <<"!", "d", "/", "*">>
    /\ matchFiles = <<<<"f">>, <<"d", "/", "f">>>>
    /\ matched[1].matchingFiles = <<<<"d", "/", "f">>>>

----------------------------------------------------------------------------
(* Scanner level: getAllFiles calls, each possibly suspended at its await *)
(* of findFiles, interleaved with invalidateCache calls.                  *)

ScanInit ==
    /\ cumulativeSet = {}
    /\ ignoredDirs = {}
    /\ last = NoCall
    /\ PassIdle
    /\ ProvIdle
    /\ ParseIdle
    /\ MatchIdle
    /\ TimerIdle
    /\ DecorIdle
    /\ ScanIdle

\* The next getAllFiles call to be made
IsNextScan(c) ==
    /\ scans[c].status = "none"
    /\ \A b \in 1..(c - 1) : scans[b].status # "none"

\* cachedFiles !== null && !cacheInvalidated
CacheValid == cachedFiles # -1 /\ ~cacheInvalidated

\* getAllFiles() with a valid cache: returns cachedFiles
GetAllFilesCached ==
    \E c \in 1..MaxScans :
        /\ IsNextScan(c)
        /\ CacheValid
        /\ scans' = [scans EXCEPT ![c] = [status |-> "returned", startedAfter |-> invalidations,
                                          began |-> cachedFiles, got |-> cachedFiles]]
        /\ UNCHANGED <<cachedFiles, cacheInvalidated, invalidations>>
        /\ UNCHANGED <<evalVars, passVars, provVars, parseVars, matchVars, timerVars, decorVars, relativeDir, disposed>>

\* getAllFiles() with no workspace folder open: caches and returns the empty
\* list, which is the workspace's content at this moment
GetAllFilesNoWorkspace ==
    \E c \in 1..MaxScans :
        /\ IsNextScan(c)
        /\ ~CacheValid
        /\ cachedFiles' = invalidations
        /\ cacheInvalidated' = FALSE
        /\ scans' = [scans EXCEPT ![c] = [status |-> "returned", startedAfter |-> invalidations,
                                          began |-> invalidations, got |-> invalidations]]
        /\ UNCHANGED invalidations
        /\ UNCHANGED <<evalVars, passVars, provVars, parseVars, matchVars, timerVars, decorVars, relativeDir, disposed>>

\* getAllFiles() without a valid cache: starts findFiles and is suspended
GetAllFilesScan ==
    \E c \in 1..MaxScans :
        /\ IsNextScan(c)
        /\ ~CacheValid
        /\ scans' = [scans EXCEPT ![c] = [status |-> "scanning", startedAfter |-> invalidations,
                                          began |-> invalidations, got |-> 0]]
        /\ UNCHANGED <<cachedFiles, cacheInvalidated, invalidations>>
        /\ UNCHANGED <<evalVars, passVars, provVars, parseVars, matchVars, timerVars, decorVars, relativeDir, disposed>>

\* findFiles resolves: the suspended call stores its list in the cache,
\* clears cacheInvalidated and returns the list
ScanReturns ==
    \E c \in 1..MaxScans :
        /\ scans[c].status = "scanning"
        /\ cachedFiles' = scans[c].began
        /\ cacheInvalidated' = FALSE
        /\ scans' = [scans EXCEPT ![c].status = "returned", ![c].got = scans[c].began]
        /\ UNCHANGED invalidations
        /\ UNCHANGED <<evalVars, passVars, provVars, parseVars, matchVars, timerVars, decorVars, relativeDir, disposed>>

\* invalidateCache(), called by the file watcher on a create or delete
InvalidateCache ==
    /\ invalidations < MaxInvalidations
    /\ cacheInvalidated' = TRUE
    /\ invalidations' = invalidations + 1
    /\ UNCHANGED <<cachedFiles, scans>>
    /\ UNCHANGED <<evalVars, passVars, provVars, parseVars, matchVars, timerVars, decorVars, relativeDir, disposed>>

ScanNext ==
    \/ GetAllFilesCached \/ GetAllFilesNoWorkspace \/ GetAllFilesScan
    \/ ScanReturns \/ InvalidateCache

SpecScan == ScanInit /\ [][ScanNext]_vars

\* C25: a getAllFiles call that starts after an invalidateCache() call has
\* returned never returns a file list whose scan began before that
\* invalidation: the list it returns was scanned after every invalidation
\* that preceded the call.
C25_NoListFromBeforeInvalidation ==
    \A c \in 1..MaxScans :
        scans[c].status = "returned" => scans[c].got >= scans[c].startedAfter

----------------------------------------------------------------------------
(* Debounce level: triggerUpdateDecorations calls from the extension's     *)
(* event handlers, the timers they set, and the runs the timers start.     *)

\* Every handler of extension.ts triggers only for an editor on an ignore document
IgnoreEditors == {e \in Editors : LanguageId(e) = "ignore"}

DebounceInit ==
    /\ cumulativeSet = {}
    /\ ignoredDirs = {}
    /\ last = NoCall
    /\ PassIdle
    /\ ProvIdle
    /\ ParseIdle
    /\ MatchIdle
    /\ ScanIdle
    /\ TimerIdle
    /\ DecorIdle

\* The next timer setTimeout creates
IsNextTimer(t) ==
    /\ timers[t].state = "none"
    /\ \A u \in 1..(t - 1) : timers[u].state # "none"

\* What updateDecorations(editor) does before its first return or await
StartStatus(editor) ==
    IF ~enabled THEN "cleared"
    ELSE IF LanguageId(editor) # "ignore" THEN "returned"
    ELSE IF ~InWorkspaceFolder(editor) THEN "returned"
    ELSE "scanning"

\* this.updateDecorations(editor), up to its first return or await
StartRun(editor) ==
    /\ updateVersion < MaxUpdates
    /\ updateVersion' = updateVersion + 1
    /\ runs' = [runs EXCEPT ![updateVersion + 1] =
                    [status |-> StartStatus(editor), editor |-> editor]]
    /\ decorations' = IF enabled THEN decorations
                      ELSE [decorations EXCEPT ![editor] = [kind |-> "cleared", version |-> 0]]
    /\ UNCHANGED enabled

TriggerThrottled_NoClear ==
    \E editor \in IgnoreEditors, t \in 1..MaxTimers :
        /\ ~disposed
        /\ IsNextTimer(t)
        /\ timers' = [timers EXCEPT ![t] = [state |-> "pending", editor |-> editor,
                                            inBurst |-> HasPending, ran |-> 0]]
        /\ updateTimeout' = t
        /\ UNCHANGED <<evalVars, passVars, provVars, parseVars, matchVars, scanVars, decorVars, relativeDir, disposed>>

\* triggerUpdateDecorations(editor, true, reason): the pending timer is
\* cleared and a new one is set
TriggerThrottled ==
    \E editor \in IgnoreEditors, t \in 1..MaxTimers :
        /\ ~disposed
        /\ IsNextTimer(t)
        /\ timers' = [ClearPending EXCEPT ![t] = [state |-> "pending", editor |-> editor,
                                                  inBurst |-> HasPending, ran |-> 0]]
        /\ updateTimeout' = t
        /\ UNCHANGED <<evalVars, passVars, provVars, parseVars, matchVars, scanVars, decorVars, relativeDir, disposed>>

\* triggerUpdateDecorations(editor, false, reason): the pending timer is
\* cleared and updateDecorations is called at once
TriggerImmediate ==
    \E editor \in IgnoreEditors :
        /\ ~disposed
        /\ timers' = ClearPending
        /\ updateTimeout' = IF updateTimeout # 0 THEN 0 ELSE updateTimeout
        /\ StartRun(editor)
        /\ UNCHANGED <<evalVars, passVars, parseVars, matchVars, scanVars, decorVars, relativeDir, disposed>>

\* The delay of a pending timer expires: its callback calls
\* updateDecorations(editor) and leaves updateTimeout as it is
TimerFires ==
    \E t \in 1..MaxTimers :
        /\ timers[t].state = "pending"
        /\ timers' = [timers EXCEPT ![t].state = "fired", ![t].ran = updateVersion + 1]
        /\ StartRun(timers[t].editor)
        /\ UNCHANGED updateTimeout
        /\ UNCHANGED <<evalVars, passVars, parseVars, matchVars, scanVars, decorVars, relativeDir, disposed>>

\* What a started run does after its scan is the provider level's matter
DebounceNext == TriggerThrottled \/ TriggerImmediate \/ TimerFires \/ Dispose

SpecDebounce == DebounceInit /\ [][DebounceNext]_vars

IsSet(t) == timers[t].state # "none"

\* t was set by the last call of its burst: no call has arrived while it was pending
IsLastOfBurst(t) ==
    IsSet(t) /\ (t = MaxTimers \/ ~IsSet(t + 1) \/ ~timers[t + 1].inBurst)

\* The timers of the burst that ends with t
BurstEndingAt(t) ==
    LET first == CHOOSE u \in 1..t :
                     /\ ~timers[u].inBurst
                     /\ \A w \in (u + 1)..t : timers[w].inBurst
    IN  first..t

----------------------------------------------------------------------------
(* Decoration level: the second loop of updateDecorations, which turns the *)
(* lineData of the first loop into the two decoration lists.               *)

\* The values getDecorationStyle returns
Styles == {"none", "background", "text", "both"}

\* createDecorationTypes leaves noMatchDecorationType undefined for `none`
NoMatchDecorationTypeDefined == currentStyle # "none"

\* The outcomes a pattern line at position k of lineData can carry
DecorOutcomes(k) ==
    {[lineIndex |-> k - 1, lineLength |-> 1, actionCount |-> a, noActionCount |-> n,
      blockedCount |-> 0, setSize |-> IF neg THEN 0 ELSE a + n, isNegation |-> neg] :
        a \in {0, 1}, n \in {0, 1}, neg \in BOOLEAN}

RECURSIVE LineDataUpTo(_)
LineDataUpTo(n) ==
    IF n = 0 THEN {<<>>}
    ELSE LET shorter == LineDataUpTo(n - 1)
         IN  shorter \cup {Append(q, d) : q \in {r \in shorter : Len(r) = n - 1},
                                          d \in DecorOutcomes(n)}

\* The first loop has finished with some lineData; style and showMatchCount
\* are what the constructor read from the configuration
DecorInit ==
    /\ cumulativeSet = {}
    /\ ignoredDirs = {}
    /\ last = NoCall
    /\ foundFiles = <<>>
    /\ document = <<>>
    /\ countMode \in {"basic", "advanced"}
    /\ workspaceFiles = <<>>
    /\ lineIndex = 0
    /\ lineData \in LineDataUpTo(MaxOutcomes)
    /\ pc = "done"
    /\ prev = NoPrev
    /\ ProvIdle
    /\ ParseIdle
    /\ MatchIdle
    /\ ScanIdle
    /\ TimerIdle
    /\ currentStyle \in Styles
    /\ showMatchCount \in BOOLEAN
    /\ noMatchDecorations = <<>>
    /\ matchCountDecorations = <<>>
    /\ relativeDir = <<>>
    /\ disposed = FALSE

\* onConfigurationChanged(): the two settings are read again
OnConfigurationChanged ==
    \E newStyle \in Styles, newShowMatchCount \in BOOLEAN :
        /\ pc = "done"
        /\ currentStyle' = newStyle
        /\ showMatchCount' = newShowMatchCount
        /\ UNCHANGED <<noMatchDecorations, matchCountDecorations, relativeDir, disposed>>
        /\ UNCHANGED <<evalVars, passVars, provVars, parseVars, matchVars, scanVars, timerVars>>

isRedundant_ZeroAction(data) == data.actionCount = 0

\* const isRedundant = !isNegation && actionCount === 0
isRedundant(data) == ~data.isNegation /\ data.actionCount = 0

\* countColour of one line
CountColour(data) ==
    IF data.isNegation THEN "negationForeground"
    ELSE IF data.actionCount = 0 THEN "noMatchForeground"
    ELSE "matchCountForeground"

\* The second loop: one count decoration per entry when counts are shown,
\* and one no-match decoration per redundant entry when the style has one
BuildDecorations ==
    /\ pc = "done"
    /\ pc' = "built"
    /\ matchCountDecorations' =
           IF showMatchCount
           THEN [k \in 1..Len(lineData) |->
                    [lineIndex |-> lineData[k].lineIndex, colour |-> CountColour(lineData[k])]]
           ELSE <<>>
    /\ LET Marked(data) == /\ isRedundant(data)
                           /\ NoMatchDecorationTypeDefined
                           /\ currentStyle # "none"
           marked == SelectSeq(lineData, Marked)
       IN  noMatchDecorations' = [k \in 1..Len(marked) |-> marked[k].lineIndex]
    /\ UNCHANGED <<currentStyle, showMatchCount, relativeDir, disposed>>
    /\ UNCHANGED <<evalVars, foundFiles, document, countMode, workspaceFiles, lineIndex,
                   lineData, prev>>
    /\ UNCHANGED <<provVars, parseVars, matchVars, scanVars, timerVars>>

DecorNext == OnConfigurationChanged \/ BuildDecorations

SpecDecor == DecorInit /\ [][DecorNext]_vars

----------------------------------------------------------------------------
(* Nested level: a pass on an ignore file that may lie in a subdirectory   *)
(* of its workspace folder; the scan finds the ignore file itself too.     *)

\* The directory of the ignore file relative to the folder, '' for the root
NestedDirs == {<<>>, <<"d">>, <<"d", "/", "e">>}

\* Other files the scan can find
NestedFiles ==
    { <<"f">>, <<"d", "/", "f">>, <<"d", "/", "e", "/", "f">>,
      <<"d", "x", "/", "f">>, <<"e", "/", "f">> }

NestedLines == { <<"f">>, <<"#", "c">> }

\* The path of the ignore file (named `i`) in the folder
IgnoreFilePath(dir) == IF dir = <<>> THEN <<"i">> ELSE dir \o <<"/", "i">>

NestedInit ==
    /\ cumulativeSet = {}
    /\ ignoredDirs = {}
    /\ last = NoCall
    /\ relativeDir \in NestedDirs
    /\ \E others \in SeqsNoDup(NestedFiles, MaxFiles) :
           foundFiles = <<IgnoreFilePath(relativeDir)>> \o others
    /\ document \in SeqsUpTo(NestedLines, MaxLines)
    /\ countMode = "advanced"
    /\ workspaceFiles = <<>>
    /\ lineIndex = 0
    /\ lineData = <<>>
    /\ pc = "idle"
    /\ prev = NoPrev
    /\ ProvIdle
    /\ ParseIdle
    /\ MatchIdle
    /\ ScanIdle
    /\ TimerIdle
    /\ currentStyle = "text"
    /\ showMatchCount = TRUE
    /\ noMatchDecorations = <<>>
    /\ matchCountDecorations = <<>>
    /\ disposed = FALSE

\* files.map(file => file.substring(prefix.length))
RECURSIVE StripPrefix(_, _)
StripPrefix(files, prefix) ==
    IF files = <<>> THEN <<>>
    ELSE <<Substring(Head(files), Len(prefix))>> \o StripPrefix(Tail(files), prefix)

\* The candidates of a pass: for an ignore file below the root, the scanned
\* paths under its directory, made relative to that directory
NestedCandidates(scanned, dir) ==
    IF dir # <<>>
    THEN LET prefix == dir \o <<"/">>
             UnderPrefixDir(file) == StartsWith(file, prefix)
         IN  StripPrefix(SelectSeq(scanned, UnderPrefixDir), prefix)
    ELSE scanned

\* updateDecorations from the resumption after the scan to its first loop
NestedStart ==
    /\ pc = "idle"
    /\ workspaceFiles' = NestedCandidates(getFilesInFolder(foundFiles), relativeDir)
    /\ lineData' = <<>>
    /\ lineIndex' = 0
    /\ cumulativeSet' = {}
    /\ ignoredDirs' = {}
    /\ last' = NoCall
    /\ pc' = "loop"
    /\ UNCHANGED <<foundFiles, document, countMode, prev>>
    /\ UNCHANGED <<provVars, parseVars, matchVars, scanVars, timerVars, decorVars,
                   relativeDir, disposed>>

\* A pattern line with the empty string among the candidates: ig.ignores('')
\* throws and the exception ends the pass
NestedPatternLineThrows ==
    /\ pc = "loop"
    /\ lineIndex < Len(document)
    /\ parseLine(CurrentLine).type = "pattern"
    /\ <<>> \in Range(workspaceFiles)
    /\ pc' = "threw"
    /\ UNCHANGED <<evalVars, foundFiles, document, countMode, workspaceFiles, lineIndex,
                   lineData, prev>>
    /\ UNCHANGED <<provVars, parseVars, matchVars, scanVars, timerVars, decorVars,
                   relativeDir, disposed>>

\* A pattern line whose candidates are all non-empty paths
NestedPatternLine ==
    /\ <<>> \notin Range(workspaceFiles)
    /\ PatternLine

NestedNext ==
    \/ NestedStart \/ SkipLine \/ NestedPatternLine \/ NestedPatternLineThrows
    \/ FinishPass

SpecNested == NestedInit /\ [][NestedNext]_vars

\* C39: for an ignore file in a subdirectory d the candidates are exactly
\* the scanned paths that start with `d/`, each without that prefix, and
\* every candidate is a non-empty path.
C39_NestedCandidatesNonEmpty ==
    (pc # "idle" /\ relativeDir # <<>>) =>
        LET prefix == relativeDir \o <<"/">>
            scanned == Range(getFilesInFolder(foundFiles))
        IN  /\ Range(workspaceFiles) =
                   {Substring(file, Len(prefix)) :
                        file \in {g \in scanned : StartsWith(g, prefix)}}
            /\ \A k \in 1..Len(workspaceFiles) : workspaceFiles[k] # <<>>

====
